---- MODULE Spec2Model ----
(***************************************************************************)
(* SMOTE and SMOTEBoost (src/smote.py) as a state machine.                 *)
(*                                                                         *)
(* One SMOTEBoost object is constructed (Init), fit is called once (Fit),  *)
(* and every pass of the boosting loop is one step (BoostIteration).       *)
(* Floating point numbers are modelled as exact rationals <<num, den>>.    *)
(* The weak-learner step _boost (inherited from AdaBoostClassifier) and    *)
(* the numpy generator are outside the repository: the first is a          *)
(* nondeterministic input of every iteration, the second a stream of raw   *)
(* draws that is a fixed but unknown function of the seed.                 *)
(***************************************************************************)
EXTENDS Integers, Sequences, FiniteSets, TLC

\* ------------------------------------------------------------------------
\* Bounds of the model.
MaxN == 4            \* rows of the caller's dataset: 1..MaxN
MaxEstimators == 3   \* n_estimators: 1..MaxEstimators
MaxSamples == 1      \* n_samples: 0..MaxSamples
MaxK == 2            \* k_neighbors: 1..MaxK
RawRange == 2        \* a raw draw of the generator is in 0..RawRange-1

\* An optional value: None, or Some(v).  An attribute that does not exist
\* yet is Unset.
None == << >>
Some(v) == << v >>
Unset == << >>

\* ------------------------------------------------------------------------
\* Exact rationals <<n, d>> with d > 0, in lowest terms.
RECURSIVE GCD(_, _)
GCD(a, b) == IF b = 0 THEN a ELSE GCD(b, a % b)

Abs(a) == IF a < 0 THEN -a ELSE a

Rat(n, d) ==
    LET g == GCD(Abs(n), Abs(d))
        s == IF d < 0 THEN -1 ELSE 1
    IN  << (s * n) \div g, (s * d) \div g >>

Zero == Rat(0, 1)
One == Rat(1, 1)

RAdd(p, q) == Rat(p[1] * q[2] + q[1] * p[2], p[2] * q[2])
RSub(p, q) == Rat(p[1] * q[2] - q[1] * p[2], p[2] * q[2])
RMul(p, q) == Rat(p[1] * q[1], p[2] * q[2])
RDiv(p, q) == Rat(p[1] * q[2], p[2] * q[1])
RAbs(p) == << Abs(p[1]), p[2] >>
RLeq(p, q) == p[1] * q[2] <= q[1] * p[2]
RLess(p, q) == p[1] * q[2] < q[1] * p[2]

RECURSIVE RSum(_)
RSum(s) == IF s = << >> THEN Zero ELSE RAdd(s[1], RSum(Tail(s)))

RECURSIVE RAbsSum(_)
RAbsSum(s) == IF s = << >> THEN Zero ELSE RAdd(RAbs(s[1]), RAbsSum(Tail(s)))

\* np.full / np.empty followed by [:] = v
Full(n, v) == [i \in 1..n |-> v]

\* The rows of s whose index satisfies the mask, in order (X[np.where(...)]).
RECURSIVE Where(_, _)
Where(s, mask) ==
    IF s = << >> THEN << >>
    ELSE (IF mask[1] THEN << s[1] >> ELSE << >>) \o Where(Tail(s), Tail(mask))

\* ------------------------------------------------------------------------
\* fit, lines 185-192: the minority class label.
Labels(y) == { y[i] : i \in 1..Len(y) }
Count(y, l) == Cardinality({ i \in 1..Len(y) : y[i] = l })
FirstIndex(y, l) == CHOOSE i \in 1..Len(y) :
                        y[i] = l /\ \A j \in 1..(i - 1) : y[j] # l

\* Faulty variant of MinLabel: maj_c_ of line 188 taken for min_c_.
MajLabel(y) ==
    CHOOSE l \in Labels(y) :
        \A m \in Labels(y) :
            \/ Count(y, l) > Count(y, m)
            \/ Count(y, l) = Count(y, m) /\ FirstIndex(y, l) <= FirstIndex(y, m)

\* min(Counter(y), key=Counter(y).get): the first label, in the order the
\* labels are first met, among those with the least count.
MinLabel(y) ==
    CHOOSE l \in Labels(y) :
        \A m \in Labels(y) :
            \/ Count(y, l) < Count(y, m)
            \/ Count(y, l) = Count(y, m) /\ FirstIndex(y, l) <= FirstIndex(y, m)

ResolveMinority(y, minority_target_arg) ==
    IF minority_target_arg = None THEN MinLabel(y) ELSE minority_target_arg[1]

\* Faulty variant of LearningRateInvalid: zero is let through.
LearningRateNegative(lr) == lr < 0

\* fit, line 154.
LearningRateInvalid(lr) == lr <= 0

\* The names bound at module level by the imports, lines 1-12, and the two
\* classes.  A name used in a function body and absent here raises NameError.
ModuleNames ==
    { "Counter", "np", "is_regressor", "AdaBoostClassifier", "BaseForest",
      "NearestNeighbors", "normalize", "BaseDecisionTree",
      "check_random_state", "check_X_y", "shuffle", "SMOTE", "SMOTEBoost" }

\* fit, lines 177-180, on exact numbers: sample_weight / sample_weight.sum()
\* and the test of the sum of the quotient.  A zero sum gives nan entries
\* (numpy divides with a warning only), and nan <= 0 is false.
NaN == << >>
NormalizeSupplied(w) ==
    LET s == RSum(w)
    IN  IF s = Zero THEN Full(Len(w), NaN)
        ELSE [i \in 1..Len(w) |-> RDiv(w[i], s)]
SumOf(w) == IF \E i \in 1..Len(w) : w[i] = NaN THEN NaN ELSE RSum(w)
NonPositive(s) == s # NaN /\ RLeq(s, Zero)

\* Faulty variant of L1Normalize: the combined weights are left as they are.
NotNormalized(w) == w

\* sklearn.preprocessing.normalize(w, axis=0, norm='l1') of a column vector,
\* lines 223-224: divide by the sum of absolute values, a zero norm being
\* replaced by 1.
L1Normalize(w) ==
    LET norm == RAbsSum(w)
        div  == IF norm = Zero THEN One ELSE norm
    IN  [i \in 1..Len(w) |-> RDiv(w[i], div)]

\* Faulty variant of DivideBySum: the weights are left as they are.
DivideBySumSkipped(w, s) == w

\* fit, line 255: sample_weight /= sample_weight_sum
\* Dividing by a zero sum gives nan entries, not an exception.
DivideBySum(w, s) == [i \in 1..Len(w) |-> IF s = Zero THEN NaN ELSE RDiv(w[i], s)]

\* ------------------------------------------------------------------------
\* SMOTE.  A point is a sequence of rationals, one per feature.
Dist2(p, q) == RSum([d \in 1..Len(p) |-> RMul(RSub(p[d], q[d]), RSub(p[d], q[d]))])

\* NearestNeighbors(n_neighbors=n).kneighbors(q): the indices of the n points
\* of Xm nearest to q in order of distance.  The order among points at equal
\* distance is not fixed by the library, so every such order is a result.
RECURSIVE KNeighbors(_, _, _)
KNeighbors(Xm, q, n) ==
    IF n = 0 THEN { << >> }
    ELSE UNION {
           LET rest == { i \in 1..Len(Xm) : \A t \in 1..Len(s) : s[t] # i }
           IN  { Append(s, i) :
                   i \in { c \in rest : \A o \in rest :
                             RLeq(Dist2(Xm[c], q), Dist2(Xm[o], q)) } }
           : s \in KNeighbors(Xm, q, n - 1) }

\* sample, line 60: X[j] + gap * (X[nn_index] - X[j])
Interpolate(base, neighbour, gap) ==
    [d \in 1..Len(base) |-> RAdd(base[d], RMul(gap, RSub(neighbour[d], base[d])))]

\* The raw draws a generator can give at stream position p (1-based), when
\* tape holds the draws its seed is already known to give.
DrawsAt(tape, p) == IF p <= Len(tape) THEN { tape[p] } ELSE 0..(RawRange - 1)

\* np.random.randint(0, n), np.random.choice(a), np.random.random() as
\* functions of one raw draw (indices are 1-based here).
RandInt(raw, n) == (raw % n) + 1
Choice(raw, a) == a[(raw % Len(a)) + 1]
Random(raw) == Rat(raw, RawRange)

\* Faulty variant of Seed: the seed is ignored and fresh entropy is taken.
SeedFresh(seed, g) == [pos |-> 0, tape |-> << >>, seeds |-> g.seeds + 1]

\* np.random.seed(seed), line 45: the process-wide stream restarts.  The same
\* integer seed gives the same draws again; seed None takes fresh entropy.
Seed(seed, g) ==
    [pos |-> 0, tape |-> IF seed = None THEN << >> ELSE g.tape, seeds |-> g.seeds + 1]

\* The generator after the raw draws ds have been read from position g.pos on.
Advance(g, ds) ==
    [pos |-> g.pos + Len(ds),
     tape |-> IF g.pos + Len(ds) > Len(g.tape)
              THEN SubSeq(g.tape, 1, g.pos) \o ds ELSE g.tape,
     seeds |-> g.seeds]

\* sample, lines 47-62, reading the stream of g from g.pos on: every result
\* is a record of the rows S, of the raw draws read, in order, and of what
\* each pass picked: base index j, the kneighbors answer, nn_index and gap.
RECURSIVE SampleLoop(_, _, _, _)
SampleLoop(Xm, k, n, g) ==
    IF n = 0 THEN { [S |-> << >>, draws |-> << >>, picks |-> << >>] }
    ELSE UNION {
           { LET j == RandInt(r1, Len(Xm))
                 nn == SubSeq(knn, 2, Len(knn))
                 nn_index == Choice(r2, nn)
                 gap == Random(r3)
             IN  [S |-> Append(prev.S, Interpolate(Xm[j], Xm[nn_index], gap)),
                  draws |-> prev.draws \o << r1, r2, r3 >>,
                  picks |-> Append(prev.picks,
                                   [j |-> j, knn |-> knn, nn_index |-> nn_index,
                                    gap |-> gap])]
             : knn \in KNeighbors(Xm, Xm[RandInt(r1, Len(Xm))], k + 1),
               r2 \in DrawsAt(g.tape, g.pos + Len(prev.draws) + 2),
               r3 \in DrawsAt(g.tape, g.pos + Len(prev.draws) + 3) }
           : prev \in SampleLoop(Xm, k, n - 1, g),
             r1 \in DrawsAt(g.tape, g.pos + 3 * (n - 1) + 1) }

\* Faulty variant of Sample: range(n_samples + 1) in line 49.
SampleOneMore(Xm, k, n, seed, g) == SampleLoop(Xm, k, n + 1, Seed(seed, g))

\* sample, lines 45-62.
Sample(Xm, k, n, seed, g) == SampleLoop(Xm, k, n, Seed(seed, g))

\* ------------------------------------------------------------------------
\* The weak-learner step self._boost(iboost, X, y, sample_weight,
\* random_state), lines 230-234, of the base class: either the stop signal
\* (None, None, None) or new weights, a learner weight and an error.  The
\* new weights are the old ones rescaled entry by entry by factors >= 0.
Half == Rat(1, 2)
Two == Rat(2, 1)
Three == Rat(3, 1)
BoostStop == [sample_weight |-> None, estimator_weight |-> None, estimator_error |-> None]
BoostResults(w) ==
    { BoostStop,
      [sample_weight |-> w, estimator_weight |-> One, estimator_error |-> Zero],
      [sample_weight |-> w, estimator_weight |-> One, estimator_error |-> Half],
      [sample_weight |-> [i \in 1..Len(w) |-> IF i = 1 THEN RMul(Three, w[i]) ELSE w[i]],
       estimator_weight |-> Two, estimator_error |-> Half],
      [sample_weight |-> Full(Len(w), Zero), estimator_weight |-> Two,
       estimator_error |-> Half] }

\* ------------------------------------------------------------------------
\* The inputs of the model.  The caller's rows are one-feature points
\* 0, 0, 1, 1, 2, ...: every second row coincides with the row before it.
InputX(N) == [i \in 1..N |-> << Rat((i - 1) \div 2, 1) >>]
InputLabels == { 0, 1 }
\* Supplied weights: all 1 but the first, with sum -1, 0 or N.
InputWeights(N) ==
    { [i \in 1..N |-> IF i = 1 THEN Rat(a, 1) ELSE One] : a \in { -N, 1 - N, 1 } }
LearningRates == { -1, 0, 1 }
Seeds == { None, Some(0) }

VARIABLES
    \* the options stored by SMOTEBoost.__init__ and SMOTE.__init__
    learning_rate, n_estimators, n_samples, k_neighbors, random_state,
    \* "new" (constructed), "loop" (at the head of the boosting loop),
    \* "done" (fit returned), "error" (fit raised err)
    pc, err,
    \* the arguments of the call, each recorded where fit first reads it:
    \* sample_weight at line 170, y and minority_target at line 185
    arg_y, arg_sample_weight, arg_minority_target,
    \* the locals of fit; iboost is -1 until the loop binds it
    X, y, sample_weight, iboost,
    \* the attributes fit creates; estimators_ is the number of learners the
    \* weak-learner steps have appended
    minority_target, estimators_, estimator_weights_, estimator_errors_,
    \* self.smote.X, and the process-wide numpy generator: draws read since
    \* the last seeding, the draws its seed is known to give, seedings so far
    smote_X, rng,
    \* a record of the weak-learner calls: how many, the weights passed to
    \* the last one, every result in order, and the exit the loop took
    boost_calls, boost_in, boost_log, stop,
    \* when logging is on, a record of the passes of the loop that reached
    \* the weak-learner step: the points the sampler was fitted on, what
    \* sample picked, the rows it returned and the weights passed on
    logging, iter_log,
    \* the number of the current call of fit on this object, and what the
    \* call before it left behind
    run, first

config == << learning_rate, n_estimators, n_samples, k_neighbors, random_state >>
args == << arg_y, arg_sample_weight, arg_minority_target >>
locals == << X, y, sample_weight, iboost >>
ensemble == << estimators_, estimator_weights_, estimator_errors_ >>
ghost == << boost_calls, boost_in, boost_log, stop, iter_log >>
history == << logging, run, first >>
vars == << config, pc, err, args, locals, minority_target, ensemble, smote_X, rng,
          ghost, history >>

\* What a call of fit leaves behind; NoRun before the first call has ended.
NoRun ==
    [pc |-> "none", err |-> "none", stop |-> "none", X |-> << >>, y |-> << >>,
     estimators_ |-> Unset, estimator_weights_ |-> Unset,
     estimator_errors_ |-> Unset, minority_target |-> Unset,
     iter_log |-> << >>, boost_log |-> << >>]

\* SMOTEBoost.__init__, lines 104-122, and SMOTE.__init__, lines 28-30: the
\* options are stored; no fitted attribute exists and the process-wide
\* generator has not been seeded by the program.  n_estimators starts at 1:
\* the base class refuses smaller values in _validate_estimator (line 195).
Init ==
    /\ learning_rate \in LearningRates
    /\ n_estimators \in 1..MaxEstimators
    /\ n_samples \in 0..MaxSamples
    /\ k_neighbors \in 1..MaxK
    /\ random_state \in Seeds
    /\ pc = "new"
    /\ err = "none"
    /\ arg_y = << >> /\ arg_sample_weight = None /\ arg_minority_target = None
    /\ X = << >> /\ y = << >> /\ sample_weight = << >> /\ iboost = -1
    /\ minority_target = Unset
    /\ estimators_ = Unset /\ estimator_weights_ = Unset /\ estimator_errors_ = Unset
    /\ smote_X = Unset
    /\ rng = [pos |-> 0, tape |-> << >>, seeds |-> 0]
    /\ boost_calls = 0 /\ boost_in = << >> /\ boost_log = << >> /\ stop = "none"
    /\ iter_log = << >>
    /\ logging \in BOOLEAN
    /\ run = 1
    /\ first = NoRun

Raise(e) ==
    /\ pc' = "error"
    /\ err' = e

\* fit, lines 153-202, called with N rows, labels yin, weights sw and
\* override mt: the checks and the initial state of the loop.
FitBody(N, yin, sw, mt) ==
    IF LearningRateInvalid(learning_rate)
    THEN /\ Raise("ValueError: learning_rate must be greater than zero")
         /\ UNCHANGED << args, locals, minority_target, ensemble >>
    ELSE IF sw # None /\ "check_array" \notin ModuleNames
    THEN /\ Raise("NameError: check_array")
         /\ X' = InputX(N)
         /\ y' = yin
         /\ arg_sample_weight' = sw
         /\ UNCHANGED << arg_y, arg_minority_target, sample_weight, iboost,
                         minority_target, ensemble >>
    ELSE IF sw # None /\ NonPositive(SumOf(NormalizeSupplied(sw)))
    THEN /\ Raise("ValueError: non-positive weighted number of samples")
         /\ X' = InputX(N)
         /\ y' = yin
         /\ arg_sample_weight' = sw
         /\ sample_weight' = NormalizeSupplied(sw)
         /\ UNCHANGED << arg_y, arg_minority_target, iboost,
                         minority_target, ensemble >>
    ELSE /\ X' = InputX(N)
         /\ y' = yin
         /\ arg_sample_weight' = sw
         /\ sample_weight' = IF sw = None THEN Full(N, Rat(1, N))
                             ELSE NormalizeSupplied(sw)
         /\ arg_y' = yin
         /\ arg_minority_target' = mt
         /\ minority_target' = Some(ResolveMinority(yin, mt))
         /\ estimators_' = Some(0)
         /\ estimator_weights_' = Some(Full(n_estimators, Zero))
         /\ estimator_errors_' = Some(Full(n_estimators, One))
         /\ iboost' = -1
         /\ pc' = "loop"
         /\ err' = "none"

Fit ==
    /\ pc = "new"
    /\ \E N \in 1..MaxN :
       \E yin \in [1..N -> InputLabels],
          sw \in { None } \cup InputWeights(N),
          mt \in { None } \cup { Some(l) : l \in InputLabels } :
         FitBody(N, yin, sw, mt)
    /\ UNCHANGED << config, smote_X, rng, ghost, history >>

\* Faulty variant of MinorityRows: the last row of the dataset is left out.
MinorityRowsStale(Xc, yc, mt) ==
    Where(Xc, [r \in 1..Len(Xc) |-> yc[r] = mt /\ r < Len(Xc)])

\* fit, line 206: X[np.where(y == self.minority_target)]
MinorityRows(Xc, yc, mt) == Where(Xc, [r \in 1..Len(Xc) |-> yc[r] = mt])

\* SMOTE.fit, lines 72-77: NearestNeighbors.fit refuses an empty array and
\* nothing else; kneighbors, line 53, refuses n_neighbors = k + 1 > len(X).
FitRefuses(Xm) == Len(Xm) = 0
KNeighborsRefuses(Xm, k) == Len(Xm) < k + 1

\* Faulty variant of SynWeight: the size after the batch is appended.
SynWeightAfter(Xc) == Rat(1, Len(Xc) + n_samples)

\* fit, lines 213-214: the weight of a new synthetic row, 1. / X.shape[0].
SynWeight(Xc) == Rat(1, Len(Xc))

\* Faulty variant of VStack: the new rows are put before the existing ones.
VStackFront(Xc, X_syn) == X_syn \o Xc

\* fit, lines 217-218: np.vstack((X, X_syn)) and np.append(y, y_syn).
VStack(Xc, X_syn) == Xc \o X_syn
AppendLabels(yc, y_syn) == yc \o y_syn

\* fit, lines 221-224.
CombineWeights(w, w_syn) == L1Normalize(w \o w_syn)

\* Faulty variants of StopSignal and ZeroError: the test is never true.
StopSignalMissed(res) == FALSE
ZeroErrorMissed(estimator_error) == FALSE
\* Faulty variant of NonPositiveSum: the test is never true.
NonPositiveSumMissed(sample_weight_sum) == FALSE

\* Faulty variant of LoopContinues: the loop never runs out of indices.
LoopForever(i, n) == TRUE

\* fit, line 204: for iboost in range(self.n_estimators) has an index after i.
LoopContinues(i, n) == i + 1 < n

\* fit, lines 237, 244, 250 and 253: the tests that end or continue the loop.
StopSignal(res) == res.sample_weight = None
ZeroError(estimator_error) == estimator_error = Zero
NonPositiveSum(sample_weight_sum) == RLeq(sample_weight_sum, Zero)
NotLastIteration(i, n) == i < n - 1

\* fit, lines 240-241.
Record(slots, i, v) == Some([slots[1] EXCEPT ![i + 1] = v])

\* kneighbors and the weak-learner step are functions of their arguments: a
\* call with the arguments of a call of the run before gives its answer again.
\* TiesAsBefore: every kneighbors answer in the picks ps on the points Xm
\* agrees with the answers to the same query earlier in ps and in the log.
TiesAsBefore(ps, Xm, log) ==
    \A t \in 1..Len(ps) :
        /\ \A u \in 1..(t - 1) :
             Xm[ps[u].j] = Xm[ps[t].j] => ps[u].knn = ps[t].knn
        /\ \A c \in 1..Len(log) :
             log[c].Xm = Xm =>
               \A u \in 1..Len(log[c].picks) :
                   Xm[log[c].picks[u].j] = Xm[ps[t].j]
                       => log[c].picks[u].knn = ps[t].knn

\* The results sample can give in this state.  Without logging the picks
\* are not kept.
SampleChoices(Xm) ==
    LET all == { syn \in Sample(Xm, k_neighbors, n_samples, random_state, rng) :
                   TiesAsBefore(syn.picks, Xm, first.iter_log) }
    IN  IF logging THEN all
        ELSE { [S |-> syn.S, draws |-> syn.draws, picks |-> << >>] : syn \in all }

\* The results call number c of the weak-learner step can give on the rows
\* Xc, labels yc and weights w.
BoostChoices(c, Xc, yc, w) ==
    IF /\ c <= Len(first.boost_log)
       /\ first.iter_log[c].w = w
       /\ Len(Xc) <= Len(first.X)
       /\ Xc = SubSeq(first.X, 1, Len(Xc))
       /\ yc = SubSeq(first.y, 1, Len(Xc))
    THEN { first.boost_log[c] }
    ELSE BoostResults(w)

\* fit, lines 204-257: one pass of the boosting loop, from the SMOTE step to
\* the normalisation of the weights the weak-learner step returned.
BoostIteration ==
    /\ pc = "loop"
    /\ LET i == iboost + 1
           mt == minority_target[1]
           X_min == MinorityRows(X, y, mt)
       IN
       /\ iboost' = i
       /\ smote_X' = Some(X_min)
       /\ IF FitRefuses(X_min)
          THEN /\ Raise("ValueError: NearestNeighbors.fit: 0 samples")
               /\ UNCHANGED << X, y, sample_weight, ensemble, rng, ghost >>
          ELSE IF n_samples > 0 /\ KNeighborsRefuses(X_min, k_neighbors)
          THEN \* raised in sample, after the seeding and the first draw
               /\ \E r1 \in DrawsAt(Seed(random_state, rng).tape, 1) :
                    rng' = Advance(Seed(random_state, rng), << r1 >>)
               /\ Raise("ValueError: kneighbors: n_neighbors > n_samples")
               /\ UNCHANGED << X, y, sample_weight, ensemble, ghost >>
          ELSE \E syn \in SampleChoices(X_min) :
               LET X_syn == syn.S
                   y_syn == Full(Len(X_syn), mt)
                   sample_weight_syn == Full(Len(X_syn), SynWeight(X))
                   combined == CombineWeights(sample_weight, sample_weight_syn)
               IN
               /\ rng' = Advance(Seed(random_state, rng), syn.draws)
               /\ X' = VStack(X, X_syn)
               /\ y' = AppendLabels(y, y_syn)
               /\ boost_calls' = boost_calls + 1
               /\ boost_in' = combined
               /\ iter_log' = IF logging
                               THEN Append(iter_log, [Xm |-> X_min, picks |-> syn.picks,
                                                      S |-> X_syn, w |-> combined])
                               ELSE iter_log
               /\ \E res \in BoostChoices(boost_calls + 1, VStack(X, X_syn),
                                            AppendLabels(y, y_syn), combined) :
                    /\ boost_log' = Append(boost_log, res)
                    /\ IF StopSignal(res)
                       THEN /\ sample_weight' = res.sample_weight
                            /\ UNCHANGED ensemble
                            /\ stop' = "boost stop"
                            /\ pc' = "done"
                       ELSE /\ estimators_' = Some(estimators_[1] + 1)
                            /\ estimator_weights_' =
                                 Record(estimator_weights_, i, res.estimator_weight)
                            /\ estimator_errors_' =
                                 Record(estimator_errors_, i, res.estimator_error)
                            /\ IF ZeroError(res.estimator_error)
                               THEN /\ sample_weight' = res.sample_weight
                                    /\ stop' = "zero error"
                                    /\ pc' = "done"
                               ELSE IF NonPositiveSum(RSum(res.sample_weight))
                               THEN /\ sample_weight' = res.sample_weight
                                    /\ stop' = "non-positive weight sum"
                                    /\ pc' = "done"
                               ELSE IF NotLastIteration(i, n_estimators)
                               THEN /\ sample_weight' =
                                         DivideBySum(res.sample_weight,
                                                     RSum(res.sample_weight))
                                    /\ stop' = "none"
                                    /\ pc' = IF LoopContinues(i, n_estimators)
                                             THEN "loop" ELSE "done"
                               ELSE /\ sample_weight' = res.sample_weight
                                    /\ stop' = "none"
                                    /\ pc' = IF LoopContinues(i, n_estimators)
                                             THEN "loop" ELSE "done"
               /\ err' = "none"
    /\ UNCHANGED << config, args, minority_target, history >>

Next == Fit \/ BoostIteration
InitPlain == Init /\ ~logging
Spec == InitPlain /\ [][Next]_vars

\* ------------------------------------------------------------------------
\* Two calls of fit on one object with the same arguments, with a fixed
\* integer random_state, a valid learning_rate and the log switched on.
MaxRerunEstimators == 2
InitLogged ==
    /\ Init
    /\ logging
    /\ n_estimators <= MaxRerunEstimators
    /\ learning_rate > 0
    /\ random_state # None

\* fit called again, lines 124-202, with the arguments of the first call,
\* once that call has ended after reaching the loop.
Refit ==
    /\ logging
    /\ run = 1
    /\ pc \in { "done", "error" }
    /\ minority_target # Unset
    /\ FitBody(Len(arg_y), arg_y, arg_sample_weight, arg_minority_target)
    /\ run' = 2
    /\ first' = [pc |-> pc, err |-> err, stop |-> stop, X |-> X, y |-> y,
                 estimators_ |-> estimators_,
                 estimator_weights_ |-> estimator_weights_,
                 estimator_errors_ |-> estimator_errors_,
                 minority_target |-> minority_target,
                 iter_log |-> iter_log, boost_log |-> boost_log]
    /\ boost_calls' = 0 /\ boost_in' = << >> /\ boost_log' = << >>
    /\ stop' = "none" /\ iter_log' = << >>
    /\ UNCHANGED << config, smote_X, rng, logging >>

NextRerun == Fit \/ BoostIteration \/ Refit
SpecRerun == InitLogged /\ [][NextRerun]_vars

\* ------------------------------------------------------------------------
\* Properties.

InitError ==
    { "ValueError: learning_rate must be greater than zero",
      "NameError: check_array",
      "ValueError: non-positive weighted number of samples" }

\* C1: when the supplied initial weights sum to <= 0, fit fails with the
\* invalid-weights error and no SMOTE step and no weak-learner call happens.
C1_NonPositiveWeightsRejected ==
    (arg_sample_weight # None /\ RLeq(RSum(arg_sample_weight), Zero))
    => /\ pc = "error"
       /\ err = "ValueError: non-positive weighted number of samples"
       /\ smote_X = Unset
       /\ boost_calls = 0

\* C2: when the supplied initial weights have a positive sum, fit does not
\* fail during initialisation and iteration 0 starts from the supplied vector
\* divided by its sum.
C2_PositiveWeightsRescaled ==
    (arg_sample_weight # None /\ RLess(Zero, RSum(arg_sample_weight)))
    => /\ err \notin InitError
       /\ (pc = "loop" /\ iboost = -1) =>
            /\ Len(sample_weight) = Len(arg_y)
            /\ RSum(sample_weight) = One
            /\ \A r \in 1..Len(sample_weight) :
                 sample_weight[r] = RDiv(arg_sample_weight[r], RSum(arg_sample_weight))

\* C3: the stream of the sampler is never reseeded or rewound once it is in
\* use: from one sample call to the next its position only advances.
C3_StreamOnlyAdvances ==
    [][rng.seeds >= 1 => (rng'.seeds = rng.seeds /\ rng'.pos >= rng.pos)]_vars

\* Slots 1..upto hold what the weak-learner step returned for them and the
\* later slots hold the defaults, weight 0 and error 1.
SlotsRecordedUpTo(upto) ==
    \A j \in 1..n_estimators :
        IF j <= upto
        THEN /\ estimator_weights_[1][j] = boost_log[j].estimator_weight
             /\ estimator_errors_[1][j] = boost_log[j].estimator_error
        ELSE /\ estimator_weights_[1][j] = Zero
             /\ estimator_errors_[1][j] = One

\* C4: if the weak-learner step returns error 0 at iteration i, the loop ends
\* after iteration i, slots 0..i hold the returned weights and errors, the
\* later slots hold the defaults, and no later weak-learner call is made.
C4_ZeroErrorEndsLoop ==
    \A c \in 1..Len(boost_log) :
        (boost_log[c] # BoostStop /\ boost_log[c].estimator_error = Zero)
        => /\ pc = "done"
           /\ err = "none"
           /\ Len(boost_log) = c
           /\ boost_calls = c
           /\ iboost = c - 1
           /\ SlotsRecordedUpTo(c)

C4_Witness ==
    /\ pc = "done"
    /\ stop = "zero error"
    /\ iboost = 1
    /\ n_estimators > 2
    /\ estimator_weights_[1][1] = Two

\* C5: if the weak-learner step returns the stop signal at iteration i, the
\* loop ends at once without an error, slot i and the later slots keep the
\* defaults and slots 0..i-1 keep what was recorded.
C5_StopSignalEndsLoop ==
    \A c \in 1..Len(boost_log) :
        boost_log[c] = BoostStop
        => /\ pc = "done"
           /\ err = "none"
           /\ Len(boost_log) = c
           /\ boost_calls = c
           /\ iboost = c - 1
           /\ SlotsRecordedUpTo(c - 1)

C5_Witness ==
    /\ pc = "done"
    /\ stop = "boost stop"
    /\ iboost = 1
    /\ n_estimators > 2
    /\ estimator_weights_[1][1] = Two

\* C6: after iteration i has completed without an early stop, features and
\* labels have originalN + (i+1)*n_samples rows.
C6_DatasetSize ==
    (pc \in { "loop", "done" } /\ iboost >= 0 /\ stop = "none")
    => /\ Len(X) = Len(arg_y) + (iboost + 1) * n_samples
       /\ Len(y) = Len(arg_y) + (iboost + 1) * n_samples

C6_Witness ==
    /\ pc = "done"
    /\ stop = "none"
    /\ n_samples > 0
    /\ iboost = n_estimators - 1
    /\ iboost > 0

\* C7: the weights passed to the weak-learner step sum to 1, and so do the
\* weights carried into the next iteration.
C7_WeightsSumToOne ==
    /\ boost_calls > 0 => RSum(boost_in) = One
    /\ pc = "loop" => RSum(sample_weight) = One

C7_Witness ==
    /\ pc = "loop"
    /\ iboost >= 0
    /\ n_samples > 0
    /\ \E r \in 2..Len(sample_weight) : sample_weight[r] # sample_weight[1]

\* C8: fit with learning_rate <= 0 fails with the invalid-parameter error
\* before any iteration and creates no learner list, no slot arrays and no
\* minority class.
C8_LearningRateRejected ==
    (learning_rate <= 0 /\ pc # "new")
    => /\ pc = "error"
       /\ err = "ValueError: learning_rate must be greater than zero"
       /\ estimators_ = Unset
       /\ estimator_weights_ = Unset
       /\ estimator_errors_ = Unset
       /\ minority_target = Unset
       /\ smote_X = Unset
       /\ iboost = -1
       /\ boost_calls = 0

C8_Witness ==
    /\ learning_rate = 0
    /\ pc = "error"

\* C9: the minority class is the caller's override if given, otherwise the
\* least frequent of the original labels, a tie going to the label met first;
\* it keeps that value for the whole run, whatever the augmented labels are.
C9_MinorityFixed ==
    minority_target # Unset
    => IF arg_minority_target # None
       THEN minority_target = arg_minority_target
       ELSE LET l == minority_target[1]
            IN  /\ \E r \in 1..Len(arg_y) : arg_y[r] = l
                /\ \A r \in 1..Len(arg_y) :
                     LET m == arg_y[r]
                     IN  \/ Count(arg_y, l) < Count(arg_y, m)
                         \/ /\ Count(arg_y, l) = Count(arg_y, m)
                            /\ FirstIndex(arg_y, l) <= FirstIndex(arg_y, m)

C9_Witness ==
    /\ arg_minority_target = None
    /\ pc = "loop"
    /\ \E m \in InputLabels :
         /\ Count(y, m) > 0
         /\ Count(y, m) < Count(y, minority_target[1])

\* C10: fitting the sampler on fewer than k+1 minority points fails at fit
\* time, before any sample is requested, whatever n_samples is, and the
\* weak-learner step is not called in that iteration.
C10_SmallMinorityRejectedAtFit ==
    (smote_X # Unset /\ Len(smote_X[1]) < k_neighbors + 1)
    => /\ pc = "error"
       /\ rng.seeds = 0
       /\ boost_calls = 0

\* ------------------------------------------------------------------------
\* C11: in every pass of sample the neighbour picked is never the base row
\* itself, also among coincident rows, and the row emitted is
\* base + gap * (neighbour - base) with 0 <= gap < 1.
C11_NeighbourIsNotBase ==
    \A c \in 1..Len(iter_log) :
        \A t \in 1..Len(iter_log[c].picks) :
            LET p == iter_log[c].picks[t]
                Xm == iter_log[c].Xm
            IN  /\ p.nn_index # p.j
                /\ RLeq(Zero, p.gap) /\ RLess(p.gap, One)
                /\ iter_log[c].S[t] = Interpolate(Xm[p.j], Xm[p.nn_index], p.gap)

\* C12: with a fixed integer random_state and a weak-learner step that is a
\* function of its arguments, fit called again on the same object with the
\* same arguments ends as the first call did, with the same synthetic rows,
\* labels, estimator weights and estimator errors.
C12_SameRunAgain ==
    (run = 2 /\ pc \in { "done", "error" }) =>
        /\ pc = first.pc /\ err = first.err /\ stop = first.stop
        /\ X = first.X /\ y = first.y
        /\ estimators_ = first.estimators_
        /\ estimator_weights_ = first.estimator_weights_
        /\ estimator_errors_ = first.estimator_errors_
        /\ Len(iter_log) = Len(first.iter_log)
        /\ \A c \in 1..Len(iter_log) : iter_log[c].S = first.iter_log[c].S

\* The second call has run two passes that each added a synthetic row.
C12_Witness ==
    /\ run = 2 /\ pc = "done"
    /\ iboost = 1
    /\ Len(X) = Len(arg_y) + 2

\* C13, as stated: fit ends after at most n_estimators passes, every started
\* pass makes exactly one call of the weak-learner step, and a call of fit
\* that reached the loop and ended without a stop signal, a zero error or a
\* non-positive weight sum has run all n_estimators passes.
C13_OneCallPerIteration ==
    /\ iboost < n_estimators
    /\ iboost >= 0 => boost_calls = iboost + 1
    /\ (pc \in { "done", "error" } /\ iboost >= 0 /\ stop = "none")
          => iboost = n_estimators - 1

\* C13, amended: the indices are bound once each, in increasing order and
\* below n_estimators; a pass makes exactly one call of the weak-learner
\* step unless its SMOTE step raises, and then it makes none and fit ends
\* with that exception; the loop goes on only while an index is left; fit
\* returns without a stop reason only after all n_estimators passes.
C13_LoopTerminates ==
    [][ /\ iboost' # iboost => (iboost' = iboost + 1 /\ iboost' < n_estimators)
        /\ pc = "loop" =>
             /\ iboost' = iboost + 1
             /\ pc' \in { "loop", "done", "error" }
             /\ boost_calls' = boost_calls + (IF pc' = "error" THEN 0 ELSE 1)
        /\ pc' = "loop" => iboost' < n_estimators - 1
        /\ (pc' = "done" /\ stop' = "none") =>
             (iboost' = n_estimators - 1 /\ boost_calls' = n_estimators)
        /\ (pc' = "error" /\ iboost' >= 0) => (stop' = "none" /\ boost_calls' = iboost')
      ]_vars

\* The SMOTE step of the first pass raised with passes still to run.
C13_Witness ==
    /\ pc = "error" /\ iboost = 0 /\ boost_calls = 0
    /\ n_estimators > 1

\* C14: a pass of the loop leaves every row and label it found unchanged and
\* at the same position and puts its n_samples new rows after them; the
\* caller's rows stay first, in the caller's order.
C14_AppendOnly ==
    [][ pc = "loop" =>
          /\ Len(X') = Len(y')
          /\ SubSeq(X', 1, Len(X)) = X
          /\ SubSeq(y', 1, Len(y)) = y
          /\ Len(X') = Len(X) + (IF pc' = "error" THEN 0 ELSE n_samples)
          /\ SubSeq(X', 1, Len(arg_y)) = InputX(Len(arg_y))
          /\ SubSeq(y', 1, Len(arg_y)) = arg_y
      ]_vars

\* Two batches have been appended after the caller's rows.
C14_Witness ==
    /\ pc \in { "loop", "done" }
    /\ iboost >= 1 /\ n_samples > 0
    /\ Len(X) = Len(arg_y) + 2 * n_samples

\* C15: the points the sampler was last fitted on, in pass iboost, are the
\* caller's rows labelled with the minority class followed by the
\* iboost * n_samples synthetic rows of the passes before, so there are
\* m0 + iboost * n_samples of them; the SMOTE step can raise for want of
\* points in the first pass only.
C15_FittedOnAugmentedMinority ==
    smote_X # Unset =>
        LET N == Len(arg_y)
            orig == Where(InputX(N), [r \in 1..N |-> arg_y[r] = minority_target[1]])
        IN  /\ smote_X[1] = orig \o SubSeq(X, N + 1, N + iboost * n_samples)
            /\ Len(smote_X[1]) = Len(orig) + iboost * n_samples
            /\ pc = "error" => iboost = 0

\* A later pass fitted the sampler on more points than the caller's minority
\* rows, with rows of another class in the dataset.
C15_Witness ==
    /\ smote_X # Unset /\ iboost >= 1 /\ n_samples > 0
    /\ \E r \in 1..Len(arg_y) : arg_y[r] # minority_target[1]
    /\ Len(smote_X[1]) = Count(arg_y, minority_target[1]) + iboost * n_samples

\* C16: in a pass that reaches the weak-learner step each of the n_samples
\* new rows enters the normalisation with weight 1 / N_current, N_current the
\* number of rows before the batch is appended, and is labelled with the
\* minority class.
C16_SyntheticWeightAndLabel ==
    [][ boost_calls' = boost_calls + 1 =>
          /\ Len(y') = Len(y) + n_samples
          /\ \A r \in (Len(y) + 1)..Len(y') : y'[r] = minority_target[1]
          /\ boost_in' = L1Normalize(sample_weight
                                       \o [r \in 1..n_samples |-> Rat(1, Len(X))])
      ]_vars

\* The weak-learner step has been reached in a pass that found more rows
\* than the caller gave.
C16_Witness ==
    /\ boost_calls >= 2 /\ n_samples > 0
    /\ Len(boost_in) = Len(arg_y) + 2 * n_samples
    /\ \A r \in (Len(arg_y) + 1)..Len(y) : y[r] = minority_target[1]

\* C17: if the weak-learner step returns, with a non-zero error and no stop
\* signal, weights whose sum is not positive at iteration i, the loop ends
\* after iteration i without an error, slots 0..i hold the returned weights
\* and errors, the later slots hold the defaults, and the weights are left as
\* returned: they are not divided by their sum.
C17_NonPositiveSumEndsLoop ==
    \A c \in 1..Len(boost_log) :
        (/\ boost_log[c] # BoostStop
         /\ boost_log[c].estimator_error # Zero
         /\ RLeq(RSum(boost_log[c].sample_weight), Zero))
        => /\ pc = "done"
           /\ err = "none"
           /\ Len(boost_log) = c
           /\ boost_calls = c
           /\ iboost = c - 1
           /\ SlotsRecordedUpTo(c)
           /\ sample_weight = boost_log[c].sample_weight

\* The second of more than two passes ended on weights that sum to zero.
C17_Witness ==
    /\ pc = "done"
    /\ stop = "non-positive weight sum"
    /\ iboost = 1
    /\ n_estimators > 2
    /\ estimator_weights_[1][2] = Two
    /\ estimator_errors_[1][3] = One
    /\ sample_weight = Full(Len(X), Zero)

\* C18: the weights carried into a pass of the loop sum to 1, so the
\* normalisation before the weak-learner step multiplies each of them by
\* N / (N + n_samples), N the number of rows the pass found, gives each new
\* row the weight 1 / (N + n_samples), and the new rows together carry
\* n_samples / (N + n_samples).
C18_RenormalisationScalesUniformly ==
    [][ /\ pc' = "loop" => RSum(sample_weight') = One
        /\ boost_calls' = boost_calls + 1 =>
             LET N == Len(X)
                 n == n_samples
             IN  /\ Len(boost_in') = N + n
                 /\ \A r \in 1..N :
                      boost_in'[r] = RMul(sample_weight[r], Rat(N, N + n))
                 /\ \A r \in (N + 1)..(N + n) : boost_in'[r] = Rat(1, N + n)
                 /\ RSum(SubSeq(boost_in', N + 1, N + n)) = Rat(n, N + n)
      ]_vars

\* A pass was entered with weights the weak-learner step had made unequal,
\* and added a row.
C18_Witness ==
    /\ boost_calls >= 2 /\ n_samples > 0
    /\ boost_log[1] # BoostStop
    /\ boost_log[1].sample_weight[1] # boost_log[1].sample_weight[2]
    /\ boost_in[1] # boost_in[2]

====
